---------------------------- MODULE Spec2Model ----------------------------
(***************************************************************************)
(* Model of the SymptSpher API backend (HaysamAmin/health2025):            *)
(*   - Codebook: loading of the evidence catalog and decode_token          *)
(*   - SessionStore: per-session case / revealed set / turn count          *)
(*   - the /start, /ask and /grade handlers, run on one asyncio event loop *)
(* Strings are sequences of one-character strings, so that split,          *)
(* startswith and concatenation are computed as Python computes them.     *)
(***************************************************************************)
EXTENDS Integers, Sequences, FiniteSets, TLC

VARIABLES
    doc,        \* the evidence file: the sequence of its non-blank lines
    content,    \* the rows the file was written from
    shape,      \* the on-disk shape the file was written in
    cbStatus,   \* "none" | "ok" | "format_error" | "decode_error"
    E_MAP,      \* Codebook.E_MAP : code -> evidence row (insertion ordered)
    V_MAP,      \* Codebook.V_MAP : (code, value code) -> value row
    lastDecode, \* the last decode_token call: <<token, result>>
    app,        \* "init" | "serving" | "norouters"
    state,      \* SessionStore.state : session id -> session | NoSession
    req,        \* the requests: slot -> request record
    loop,       \* the request the event loop is running, 0 when idle
    out,        \* the response sent by the step just taken, else NoOut
    asked,      \* per session id: Asks completed since its last Start
    shown,      \* per session id: tokens Asks revealed since its last Start
    call        \* a call of a pure function: its name, arguments and result

vars == <<doc, content, shape, cbStatus, E_MAP, V_MAP, lastDecode,
          app, state, req, loop, out, asked, shown, call>>

cbVars == <<doc, content, shape, cbStatus, E_MAP, V_MAP, lastDecode>>
srvVars == <<app, state, req, loop, out, asked, shown>>

-----------------------------------------------------------------------------
(* Bounds of the model *)

MaxRows == 2
MaxTurns == 2
NReq == 2
MaxValue == 11      \* numeric values are drawn from -MaxValue..MaxValue
MaxDiff == 2        \* entries of a differential
MaxEv == 3          \* evidences of a case
MaxIL == 102        \* turn counts are drawn from -2..MaxIL

-----------------------------------------------------------------------------
(* Python strings *)

SEP == <<"_", "@", "_">>
V_PREFIX == <<"V", "_">>
ARROW == <<" ", "->", " ">>

startswith(s, p) ==
    Len(s) >= Len(p) /\ SubSeq(s, 1, Len(p)) = p

\* index of the first occurrence of pat in s, 0 when there is none
find(s, pat) ==
    LET hits == {i \in 1..(Len(s) - Len(pat) + 1) :
                    SubSeq(s, i, i + Len(pat) - 1) = pat}
    IN IF hits = {} THEN 0 ELSE CHOOSE i \in hits : \A j \in hits : i <= j

contains(s, pat) == find(s, pat) # 0

\* variant: the token is cut at its last separator
split_head_last(token) ==
    LET hits == {i \in 1..(Len(token) - Len(SEP) + 1) :
                    SubSeq(token, i, i + Len(SEP) - 1) = SEP}
    IN IF hits = {} THEN token
       ELSE SubSeq(token, 1, (CHOOSE i \in hits : \A j \in hits : i >= j) - 1)

\* token.split("_@_")[0]
split_head(token) ==
    IF contains(token, SEP) THEN SubSeq(token, 1, find(token, SEP) - 1) ELSE token

\* token.split("_@_", 1)[1], for a token that holds the separator
split_tail(token) ==
    SubSeq(token, find(token, SEP) + Len(SEP), Len(token))

Digit(d) == <<"0", "1", "2", "3", "4", "5", "6", "7", "8", "9">>[d + 1]

RECURSIVE NatStr(_)
NatStr(n) == IF n < 10 THEN <<Digit(n)>> ELSE NatStr(n \div 10) \o <<Digit(n % 10)>>

IntStr(n) == IF n < 0 THEN <<"-">> \o NatStr(-n) ELSE NatStr(n)

-----------------------------------------------------------------------------
(* JSON values as json.loads returns them *)

JNull == [t |-> "null", v |-> <<>>]
JStr(s) == [t |-> "str", v |-> s]
JInt(n) == [t |-> "int", v |-> n]
JList(xs) == [t |-> "list", v |-> xs]
JDict(kv) == [t |-> "dict", v |-> kv]
JBad == [t |-> "bad", v |-> <<>>]

isdict(j) == j.t = "dict"
islist(j) == j.t = "list"
isstr(j) == j.t = "str"
isint(j) == j.t = "int"

\* Python truthiness
Truthy(j) ==
    CASE j.t = "null" -> FALSE
      [] j.t = "int" -> j.v # 0
      [] OTHER -> j.v # <<>>

\* a or b
Or(a, b) == IF Truthy(a) THEN a ELSE b

\* str(x) / f"{x}"
Str(j) ==
    CASE j.t = "str" -> j.v
      [] j.t = "null" -> <<"N", "o", "n", "e">>
      [] j.t = "int" -> IntStr(j.v)
      [] OTHER -> <<"<repr>">>

\* k in d
HasKey(kv, k) == \E i \in 1..Len(kv) : kv[i][1] = k

\* d.get(k)
Get(kv, k) ==
    IF HasKey(kv, k)
    THEN kv[CHOOSE i \in 1..Len(kv) : kv[i][1] = k][2]
    ELSE JNull

\* d[k] = v on an insertion-ordered dict
Put(kv, k, v) ==
    IF HasKey(kv, k)
    THEN [i \in 1..Len(kv) |-> IF kv[i][1] = k THEN <<k, v>> ELSE kv[i]]
    ELSE Append(kv, <<k, v>>)

-----------------------------------------------------------------------------
(* Field names *)

K_code_evidence == <<"c", "o", "d", "e", "_", "e", "v", "i", "d", "e", "n", "c", "e">>
K_code == <<"c", "o", "d", "e">>
K_id == <<"i", "d">>
K_question_en == <<"q", "u", "e", "s", "t", "i", "o", "n", "_", "e", "n">>
K_name_en == <<"n", "a", "m", "e", "_", "e", "n">>
K_label_en == <<"l", "a", "b", "e", "l", "_", "e", "n">>
K_question == <<"q", "u", "e", "s", "t", "i", "o", "n">>
K_name == <<"n", "a", "m", "e">>
K_label == <<"l", "a", "b", "e", "l">>
K_possible_values_h == <<"p", "o", "s", "s", "i", "b", "l", "e", "-", "v", "a", "l", "u", "e", "s">>
K_possible_values == <<"p", "o", "s", "s", "i", "b", "l", "e", "_", "v", "a", "l", "u", "e", "s">>
K_values == <<"v", "a", "l", "u", "e", "s">>
K_code_value == <<"c", "o", "d", "e", "_", "v", "a", "l", "u", "e">>
K_value_en == <<"v", "a", "l", "u", "e", "_", "e", "n">>
K_value == <<"v", "a", "l", "u", "e">>
K_evidences == <<"e", "v", "i", "d", "e", "n", "c", "e", "s">>
K_evidence == <<"e", "v", "i", "d", "e", "n", "c", "e">>
K_data == <<"d", "a", "t", "a">>
K_items == <<"i", "t", "e", "m", "s">>

\* the keys Codebook.__init__ tries, in order
WRAP_KEYS == <<K_evidences, K_evidence, K_data, K_items>>

\* the display fields decode_token tries for a bare head, in order
TEXT_KEYS == <<K_question_en, K_name_en, K_label_en, K_question, K_name, K_label>>

-----------------------------------------------------------------------------
(* Codebook.__init__ : reading and normalising the evidence file *)

\* json.loads(txt_e): the whole text is one JSON value
json_loads(lines) ==
    IF Len(lines) = 1 /\ lines[1].t # "bad"
    THEN [ok |-> TRUE, val |-> lines[1]]
    ELSE [ok |-> FALSE, val |-> JNull]

\* [json.loads(line) for line in txt_e.splitlines() if line.strip()]
json_lines(lines) ==
    IF \E i \in 1..Len(lines) : lines[i].t = "bad"
    THEN [ok |-> FALSE, val |-> JNull]
    ELSE [ok |-> TRUE, val |-> JList(lines)]

\* try json.loads, except JSONDecodeError fall back to JSON Lines
load_json(lines) ==
    IF json_loads(lines).ok THEN json_loads(lines) ELSE json_lines(lines)

\* the first conventional key holding a list, 0 when there is none
wrap_key(kv) ==
    LET hits == {i \in 1..Len(WRAP_KEYS) : islist(Get(kv, WRAP_KEYS[i]))}
    IN IF hits = {} THEN 0 ELSE CHOOSE i \in hits : \A j \in hits : i <= j

\* {"code_evidence": code, **row}
backfill(code, row) ==
    IF HasKey(row, K_code_evidence)
    THEN <<<<K_code_evidence, Get(row, K_code_evidence)>>>>
         \o SelectSeq(row, LAMBDA p : p[1] # K_code_evidence)
    ELSE <<<<K_code_evidence, JStr(code)>>>> \o row

\* Case B: the rows of a dict-of-dicts
RECURSIVE dict_rows(_)
dict_rows(kv) ==
    IF kv = <<>> THEN <<>>
    ELSE LET code == Head(kv)[1]
             row == Head(kv)[2]
         IN (IF isdict(row) THEN <<JDict(backfill(code, row.v))>> ELSE <<>>)
            \o dict_rows(Tail(kv))

\* variant: a scalar document is taken as an empty catalog
normalize_lenient(e_obj) ==
    CASE isdict(e_obj) ->
            IF wrap_key(e_obj.v) # 0
            THEN [ok |-> TRUE, e |-> Get(e_obj.v, WRAP_KEYS[wrap_key(e_obj.v)]).v]
            ELSE [ok |-> TRUE, e |-> dict_rows(e_obj.v)]
      [] islist(e_obj) -> [ok |-> TRUE, e |-> e_obj.v]
      [] OTHER -> [ok |-> TRUE, e |-> <<>>]

\* normalise e_obj to self.e, or raise ValueError
normalize(e_obj) ==
    CASE isdict(e_obj) ->
            IF wrap_key(e_obj.v) # 0
            THEN [ok |-> TRUE, e |-> Get(e_obj.v, WRAP_KEYS[wrap_key(e_obj.v)]).v]
            ELSE [ok |-> TRUE, e |-> dict_rows(e_obj.v)]
      [] islist(e_obj) -> [ok |-> TRUE, e |-> e_obj.v]
      [] OTHER -> [ok |-> FALSE, e |-> <<>>]

-----------------------------------------------------------------------------
(* Codebook._build_maps *)

row_code(ev) == Or(Or(Get(ev, K_code_evidence), Get(ev, K_code)), Get(ev, K_id))

\* variant: the first row of a code is kept, later ones are dropped
RECURSIVE build_E_MAP_first(_, _)
build_E_MAP_first(e, emap) ==
    IF e = <<>> THEN emap
    ELSE LET ev == Head(e)
         IN IF ~isdict(ev) THEN build_E_MAP_first(Tail(e), emap)
            ELSE LET code == row_code(ev.v)
                 IN IF Truthy(code) /\ ~HasKey(emap, code)
                    THEN build_E_MAP_first(Tail(e),
                            Put(emap, code, JDict(Put(ev.v, K_code_evidence, code))))
                    ELSE build_E_MAP_first(Tail(e), emap)

RECURSIVE build_E_MAP(_, _)
build_E_MAP(e, emap) ==
    IF e = <<>> THEN emap
    ELSE LET ev == Head(e)
         IN IF ~isdict(ev) THEN build_E_MAP(Tail(e), emap)
            ELSE LET code == row_code(ev.v)
                 IN IF Truthy(code)
                    THEN build_E_MAP(Tail(e),
                            Put(emap, code, JDict(Put(ev.v, K_code_evidence, code))))
                    ELSE build_E_MAP(Tail(e), emap)

row_values(ev) ==
    Or(Or(Or(Get(ev, K_possible_values_h), Get(ev, K_possible_values)),
          Get(ev, K_values)), JList(<<>>))

value_code(val) == Or(Or(Get(val, K_code_value), Get(val, K_code)), Get(val, K_id))

RECURSIVE add_values(_, _, _)
add_values(code, vals, vmap) ==
    IF vals = <<>> THEN vmap
    ELSE LET val == Head(vals)
         IN IF ~isdict(val) THEN add_values(code, Tail(vals), vmap)
            ELSE LET vcode == value_code(val.v)
                 IN IF Truthy(vcode)
                    THEN add_values(code, Tail(vals), Put(vmap, <<code, vcode>>, val))
                    ELSE add_values(code, Tail(vals), vmap)

RECURSIVE build_V_MAP(_, _)
build_V_MAP(rows, vmap) ==
    IF rows = <<>> THEN vmap
    ELSE LET ev == Head(rows)[2].v
             vals == row_values(ev)
         IN IF ~islist(vals) THEN build_V_MAP(Tail(rows), vmap)
            ELSE build_V_MAP(Tail(rows),
                    add_values(Get(ev, K_code_evidence), vals.v, vmap))

build_maps(e) ==
    LET emap == build_E_MAP(e, <<>>)
    IN [E_MAP |-> emap, V_MAP |-> build_V_MAP(emap, <<>>)]

\* Codebook(evidences_path, ...): the status and the two maps
Codebook_init(lines) ==
    LET parsed == load_json(lines)
        norm == normalize(parsed.val)
    IN IF ~parsed.ok THEN [status |-> "decode_error", E_MAP |-> <<>>, V_MAP |-> <<>>]
       ELSE IF ~norm.ok THEN [status |-> "format_error", E_MAP |-> <<>>, V_MAP |-> <<>>]
       ELSE [status |-> "ok", E_MAP |-> build_maps(norm.e).E_MAP,
             V_MAP |-> build_maps(norm.e).V_MAP]

-----------------------------------------------------------------------------
(* Codebook.decode_token *)

\* E_MAP keys are JSON values; a token head is a Python str
emap_get(emap, head) == Get(emap, JStr(head))
vmap_get(vmap, head, tail) == Get(vmap, <<JStr(head), JStr(tail)>>)

\* the first display field present in the row, 0 when there is none
text_key(ev) ==
    LET hits == {i \in 1..Len(TEXT_KEYS) : HasKey(ev, TEXT_KEYS[i])}
    IN IF hits = {} THEN 0 ELSE CHOOSE i \in hits : \A j \in hits : i <= j

\* q = ev.get("question_en") or ev.get("name_en") or ev.get("question") or head
question_text(ev, head) ==
    Or(Or(Or(Get(ev, K_question_en), Get(ev, K_name_en)), Get(ev, K_question)),
       JStr(head))

\* label = val.get("value_en") or ... or tail
value_label(val, tail) ==
    Or(Or(Or(Or(Get(val, K_value_en), Get(val, K_label_en)), Get(val, K_value)),
          Get(val, K_label)), JStr(tail))

decode_bare(emap, token) ==
    LET ev == emap_get(emap, token)
    IN IF Truthy(ev) /\ text_key(ev.v) # 0
       THEN Str(Get(ev.v, TEXT_KEYS[text_key(ev.v)]))
       ELSE token

\* variant: an unknown head is answered with the head, not the whole token
decode_valued_head(emap, vmap, token) ==
    LET head == split_head(token)
        tail == split_tail(token)
        ev == emap_get(emap, head)
        val == vmap_get(vmap, head, tail)
    IN IF startswith(tail, V_PREFIX) /\ Truthy(ev) /\ Truthy(val)
       THEN Str(question_text(ev.v, head)) \o ARROW \o Str(value_label(val.v, tail))
       ELSE IF Truthy(ev)
       THEN Str(question_text(ev.v, head)) \o ARROW \o tail
       ELSE head

\* variant: a categorical tail without a value row returns the raw token
decode_valued_nofall(emap, vmap, token) ==
    LET head == split_head(token)
        tail == split_tail(token)
        ev == emap_get(emap, head)
        val == vmap_get(vmap, head, tail)
    IN IF startswith(tail, V_PREFIX)
       THEN IF Truthy(ev) /\ Truthy(val)
            THEN Str(question_text(ev.v, head)) \o ARROW \o Str(value_label(val.v, tail))
            ELSE token
       ELSE IF Truthy(ev)
       THEN Str(question_text(ev.v, head)) \o ARROW \o tail
       ELSE token

decode_valued(emap, vmap, token) ==
    LET head == split_head(token)
        tail == split_tail(token)
        ev == emap_get(emap, head)
        val == vmap_get(vmap, head, tail)
    IN IF startswith(tail, V_PREFIX) /\ Truthy(ev) /\ Truthy(val)
       THEN Str(question_text(ev.v, head)) \o ARROW \o Str(value_label(val.v, tail))
       ELSE IF Truthy(ev)
       THEN Str(question_text(ev.v, head)) \o ARROW \o tail
       ELSE token

decode_with(emap, vmap, token) ==
    IF ~contains(token, SEP)
    THEN decode_bare(emap, token)
    ELSE decode_valued(emap, vmap, token)

decode_token(token) == decode_with(E_MAP, V_MAP, token)

-----------------------------------------------------------------------------
(* Codes, texts and the evidence files the model draws from *)

E_53 == <<"E", "_", "5", "3">>
E_54 == <<"E", "_", "5", "4">>
E_55 == <<"E", "_", "5", "5">>
E_56 == <<"E", "_", "5", "6">>
E_57 == <<"E", "_", "5", "7">>
E_58 == <<"E", "_", "5", "8">>
E_59 == <<"E", "_", "5", "9">>
E_91 == <<"E", "_", "9", "1">>
E_97 == <<"E", "_", "9", "7">>
E_999 == <<"E", "_", "9", "9", "9">>
V_167 == <<"V", "_", "1", "6", "7">>
V_9 == <<"V", "_", "9">>
UNKNOWN == <<"U", "N", "K", "N", "O", "W", "N">>
PAIN_ANY == <<"P", "A", "I", "N", "_", "A", "N", "Y">>
Fever == <<"D", "o", " ", "y", "o", "u", " ", "h", "a", "v", "e", " ", "a", " ", "f", "e", "v", "e", "r", "?">>
Where == <<"W", "h", "e", "r", "e", " ", "i", "s", " ", "t", "h", "e", " ", "p", "a", "i", "n", "?">>
Intensity == <<"H", "o", "w", " ", "i", "n", "t", "e", "n", "s", "e", " ", "i", "s", " ", "t", "h", "e", " ", "p", "a", "i", "n", "?">>
TempleL == <<"t", "e", "m", "p", "l", "e", " ", "(", "L", ")">>
Site == <<"S", "i", "t", "e">>
Arm == <<"a", "r", "m">>

\* compose "head_@_tail"
Tok(head, tail) == head \o SEP \o tail

R_fever == JDict(<< <<K_code_evidence, JStr(E_91)>>, <<K_question_en, JStr(Fever)>> >>)
R_loc ==
    JDict(<< <<K_code_evidence, JStr(E_55)>>, <<K_question_en, JStr(Where)>>,
             <<K_possible_values_h,
               JList(<< JDict(<< <<K_code_value, JStr(V_167)>>,
                                 <<K_value_en, JStr(TempleL)>> >>) >>)>> >>)
R_int == JDict(<< <<K_code, JStr(E_56)>>, <<K_name, JStr(Intensity)>> >>)
R_loc2 ==
    JDict(<< <<K_id, JStr(E_55)>>, <<K_question, JStr(Site)>>,
             <<K_values,
               JList(<< JDict(<< <<K_id, JStr(V_9)>>, <<K_label, JStr(Arm)>> >>) >>)>> >>)
R_nocode == JDict(<< <<K_question_en, JStr(Site)>> >>)
R_scalar == JInt(7)

RowPool == {R_fever, R_loc, R_int, R_loc2, R_nocode, R_scalar}

RECURSIVE SeqsUpTo(_, _)
SeqsUpTo(S, n) ==
    IF n = 0 THEN {<<>>}
    ELSE LET shorter == SeqsUpTo(S, n - 1)
         IN shorter \cup {Append(s, x) : s \in shorter, x \in S}

Contents == SeqsUpTo(RowPool, MaxRows)

Shapes == {"array", "wrapped", "keyed", "jsonl"}

\* every row is an object that carries a code, and no two rows share a code
WellFormed(c) ==
    /\ \A i \in 1..Len(c) : isdict(c[i]) /\ isstr(row_code(c[i].v)) /\ Truthy(row_code(c[i].v))
    /\ \A i, j \in 1..Len(c) : i # j => row_code(c[i].v) # row_code(c[j].v)

\* the file holding the rows c, written in shape s
Encode(c, s) ==
    CASE s = "array" -> << JList(c) >>
      [] s = "wrapped" -> << JDict(<< <<K_evidences, JList(c)>> >>) >>
      [] s = "keyed" -> << JDict([i \in 1..Len(c) |-> <<row_code(c[i].v).v, c[i]>>]) >>
      [] s = "jsonl" -> c

Writable(c, s) == s = "keyed" => WellFormed(c)

\* a JSON object keyed by head code whose keys are not the rows' own codes:
\* row i is stored under FILE_KEYS[i]
FILE_KEYS == <<E_97, E_999, E_53, E_54>>
Rekeyed(c) == << JDict([i \in 1..Len(c) |-> <<FILE_KEYS[i], c[i]>>]) >>

\* files in none of the four shapes
OddDocs ==
    { << JInt(3) >>, << JStr(E_91) >>, << JNull >>,
      << JDict(<< <<K_name, JStr(Site)>>, <<K_data, JInt(3)>> >>) >>,
      << JBad >>, << R_fever, JBad >> }

\* the tokens decode_token is called with
Tokens ==
    { E_91, E_999, E_55, E_56, UNKNOWN,
      Tok(E_55, V_167), Tok(E_55, V_9), Tok(E_56, <<"5">>), Tok(E_91, V_9),
      Tok(E_999, V_167), Tok(E_999, <<"7">>) }

-----------------------------------------------------------------------------
(* The requests, the case catalog and the inputs of the handlers *)

Sids == {"s1", "s2"}
Reqs == 1..NReq

Flu == <<"F", "l", "u">>
Cold == <<"C", "o", "l", "d">>
cold_lc == <<"c", "o", "l", "d">>

\* the case catalog (cases/sample_cases.jsonl), probabilities as fractions
Case1 ==
    [id |-> "c1", initial_evidence |-> E_53,
     evidences |-> <<E_53, Tok(E_91, <<"3">>)>>,
     differential |-> << [disease |-> Flu, prob |-> <<55, 100>>],
                         [disease |-> Cold, prob |-> <<30, 100>>] >>]
Case2 ==
    [id |-> "c2", initial_evidence |-> Tok(E_55, V_167),
     evidences |-> <<Tok(E_55, V_167), Tok(E_56, <<"5">>)>>,
     differential |-> << [disease |-> Cold, prob |-> <<20, 100>>],
                         [disease |-> cold_lc, prob |-> <<60, 100>>] >>]
Cases == {Case1, Case2}
NoCase == [id |-> "none", initial_evidence |-> <<>>, evidences |-> <<>>,
           differential |-> <<>>]

\* a session id without a session: SessionStore.get returns None
NoSession == [case |-> NoCase, revealed |-> {}, turns |-> -1]

\* PAIN_HEADS of nlg_openai
PAIN_HEADS == {E_54, E_55, E_56, E_57, E_58, E_59}

\* what OpenAINLU.parse can return: (feature, value)
NLUOut ==
    { <<E_91, JInt(3)>>, <<E_55, JStr(<<"1", "6", "7">>)>>, <<E_56, JStr(V_9)>>,
      <<PAIN_ANY, JNull>>, <<UNKNOWN, JNull>> }

DX_flu == <<"f", "l", "u">>
DX_FLU_sp == <<" ", "F", "L", "U", " ">>
DX_other == <<"o", "t", "h", "e", "r">>
Diagnoses == {DX_flu, DX_FLU_sp, DX_other}

-----------------------------------------------------------------------------
(* scoring.py *)

LowerChar(c) ==
    CASE c = "A" -> "a"
      [] c = "B" -> "b"
      [] c = "C" -> "c"
      [] c = "D" -> "d"
      [] c = "E" -> "e"
      [] c = "F" -> "f"
      [] c = "G" -> "g"
      [] c = "H" -> "h"
      [] c = "I" -> "i"
      [] c = "J" -> "j"
      [] c = "K" -> "k"
      [] c = "L" -> "l"
      [] c = "M" -> "m"
      [] c = "N" -> "n"
      [] c = "O" -> "o"
      [] c = "P" -> "p"
      [] c = "Q" -> "q"
      [] c = "R" -> "r"
      [] c = "S" -> "s"
      [] c = "T" -> "t"
      [] c = "U" -> "u"
      [] c = "V" -> "v"
      [] c = "W" -> "w"
      [] c = "X" -> "x"
      [] c = "Y" -> "y"
      [] c = "Z" -> "z"
      [] OTHER -> c

\* s.lower()
lower(s) == [i \in 1..Len(s) |-> LowerChar(s[i])]

\* s.strip()
RECURSIVE strip(_)
strip(s) ==
    IF s = <<>> THEN s
    ELSE IF Head(s) = " " THEN strip(Tail(s))
    ELSE IF s[Len(s)] = " " THEN strip(SubSeq(s, 1, Len(s) - 1))
    ELSE s

\* round(n / d) for n >= 0, d > 0: Python rounds halves to even
round_div(n, d) ==
    LET q == n \div d
        r == n % d
    IN IF 2 * r > d \/ (2 * r = d /\ q % 2 = 1) THEN q + 1 ELSE q

\* the first entry whose disease matches dx ignoring case, 0 when none does
first_match(differential, dx) ==
    LET hits == {i \in 1..Len(differential) :
                    lower(differential[i].disease) = lower(dx)}
    IN IF hits = {} THEN 0 ELSE CHOOSE i \in hits : \A j \in hits : i <= j

\* variant: the last matching entry wins
diagnosis_credit_last(differential, dx) ==
    LET hits == {i \in 1..Len(differential) :
                    lower(differential[i].disease) = lower(dx)}
        i == IF hits = {} THEN 0 ELSE CHOOSE k \in hits : \A j \in hits : k >= j
    IN IF i = 0 THEN 0
       ELSE round_div(100 * differential[i].prob[1], differential[i].prob[2])

diagnosis_credit(differential, dx) ==
    LET i == first_match(differential, dx)
    IN IF i = 0 THEN 0
       ELSE round_div(100 * differential[i].prob[1], differential[i].prob[2])

heads_of(tokens) == {split_head(t) : t \in tokens}
seq_set(xs) == {xs[i] : i \in 1..Len(xs)}

\* variant: whole tokens are compared, not their heads
per_score_tokens(case_evidences, revealed) ==
    LET case_toks == seq_set(case_evidences)
    IN IF case_toks = {} THEN 0
       ELSE round_div(100 * Cardinality(case_toks \cap revealed),
                      Cardinality(case_toks))

per_score(case_evidences, revealed) ==
    LET case_heads == heads_of(seq_set(case_evidences))
        rev_heads == heads_of(revealed)
    IN IF case_heads = {} THEN 0
       ELSE round_div(100 * Cardinality(case_heads \cap rev_heads),
                      Cardinality(case_heads))

il_score(turns_used) == IF turns_used > 0 THEN turns_used ELSE 0

\* int(round(x)) for a float x computed with rounding errors, whose exact
\* value is n / d (n >= 0, d > 0): the nearest integer; when n / d lies
\* halfway between two integers the computed x can fall on either side
round_float(n, d) ==
    IF 2 * (n % d) = d THEN {n \div d, n \div d + 1} ELSE {round_div(n, d)}

\* variant: the turns are not clamped at 100
composite_unclamped(credit, per, il) ==
    LET n == 6 * credit + 3 * per + (100 - il)
    IN IF n < 0 THEN {0 - x : x \in round_float(0 - n, 10)} ELSE round_float(n, 10)

\* int(round(0.6 * credit + 0.3 * per + 0.1 * max(0, 100 - il))): the scores
\* the float sum can round to
composite(credit, per, il) ==
    round_float(6 * credit + 3 * per + (IF 100 - il > 0 THEN 100 - il ELSE 0), 10)

-----------------------------------------------------------------------------
(* store.py and the values the handlers of patient.py compute *)

\* variant: a restart keeps what the session had revealed and counted
start_session_keep(old, case) ==
    [case |-> case,
     revealed |-> old.revealed \cup {case.initial_evidence},
     turns |-> IF old.turns > 0 THEN old.turns ELSE 0]

\* SessionStore.start: the record stored under sid
start_session(old, case) ==
    [case |-> case, revealed |-> {case.initial_evidence}, turns |-> 0]

\* _present_for_head / the PAIN_ANY presence test
pain_present(case) ==
    \E i \in 1..Len(case.evidences) : split_head(case.evidences[i]) \in PAIN_HEADS

pain_tokens(case) ==
    {t \in seq_set(case.evidences) : split_head(t) \in PAIN_HEADS}

\* variant: the V_ prefix is put before every string value
compose_prefixed(f_head, value) ==
    CASE isint(value) -> f_head \o SEP \o IntStr(value.v)
      [] isstr(value) -> f_head \o SEP \o V_PREFIX \o value.v
      [] OTHER -> f_head

\* Step 2 of ask: the token composed from (feature, value)
compose(f_head, value) ==
    CASE isint(value) -> f_head \o SEP \o IntStr(value.v)
      [] isstr(value) ->
            f_head \o SEP \o (IF startswith(value.v, V_PREFIX) THEN value.v
                              ELSE V_PREFIX \o value.v)
      [] OTHER -> f_head

has_feature(case, token, f_head) ==
    \E i \in 1..Len(case.evidences) :
        token = case.evidences[i] \/ f_head = split_head(case.evidences[i])

\* variant: the store keeps only the token revealed last
reveal_if_only(revealed, has, token) == IF has THEN {token} ELSE revealed

\* variant: the composed token is revealed whether or not the case has it
reveal_if_all(revealed, has, token) == revealed \cup {token}

\* "if has_feature: store.reveal(sid, token)"
reveal_if(revealed, has, token) ==
    IF has THEN revealed \cup {token} ELSE revealed

\* the answer text of human_answer: opaque
NLG_TEXT == <<"<answer>">>

\* what ask returns from its "except Exception" branch
error_dict == [answer |-> JNull, revealed |-> {}]

\* FastAPI checks the returned value against response_model=AskResp
\* (answer: str); a value that does not fit is answered with status 500
ask_response(ret) ==
    IF isstr(ret.answer)
    THEN [status |-> 200, answer |-> ret.answer, revealed |-> ret.revealed,
          grade |-> <<>>, feedback |-> <<>>]
    ELSE [status |-> 500, answer |-> JNull, revealed |-> {}, grade |-> <<>>,
          feedback |-> <<>>]

CONSIDER == <<"Consider asking about: ">>
GOOD_COVERAGE == <<"Good coverage.">>

Min(a, b) == IF a < b THEN a ELSE b

\* list(a_set)[:n]: a set is listed in an order the program does not fix
list_upto(S, n) ==
    {hs \in [1..Min(n, Cardinality(S)) -> S] :
        \A i, j \in DOMAIN hs : i # j => hs[i] # hs[j]}

\* variant: every missed head is reported
missed_heads_all(sess) ==
    list_upto(heads_of(seq_set(sess.case.evidences)) \ heads_of(sess.revealed), 5)

\* missed_heads = list(heads_in_case - revealed_heads)[:3]
missed_heads(sess) ==
    list_upto(heads_of(seq_set(sess.case.evidences)) \ heads_of(sess.revealed), 3)

\* the feedback lists grade can return, the missed heads decoded
feedback(sess) ==
    { IF hs = <<>> THEN <<GOOD_COVERAGE>>
      ELSE [i \in DOMAIN hs |-> CONSIDER \o decode_token(hs[i])] :
        hs \in missed_heads(sess) }

\* the metrics and the feedback of grade: the responses it can return
grade_metrics(sess, dx) ==
    LET normalized == strip(dx)
        credit == diagnosis_credit(sess.case.differential, normalized)
        per == per_score(sess.case.evidences, sess.revealed)
        il == il_score(sess.turns)
    IN { [status |-> 200, answer |-> JStr(normalized), revealed |-> {},
          grade |-> <<credit, per, il, score>>, feedback |-> fb] :
            score \in composite(credit, per, il), fb \in feedback(sess) }

\* variant: a missing session is graded as an empty one
grade_response_nocheck(sess, dx) == grade_metrics(sess, dx)

\* grade: HTTPException(404) for a missing session, else the metrics
grade_response(sess, dx) ==
    IF sess = NoSession
    THEN { [status |-> 404, answer |-> JNull, revealed |-> {}, grade |-> <<>>,
             feedback |-> <<>>] }
    ELSE grade_metrics(sess, dx)

NoStore == [s \in Sids |-> NoSession]

\* no pure function is being called
NoCall == [fn |-> "none", args |-> <<>>, ret |-> <<>>, done |-> FALSE]

Idle ==
    [kind |-> "none", sid |-> "s1", pc |-> "idle", case |-> NoCase,
     feature |-> <<>>, token |-> <<>>, has |-> FALSE, tmp |-> 0,
     pre |-> NoStore, snap |-> {}]

NoOut ==
    [kind |-> "none", sid |-> "s1", handled |-> FALSE, found |-> FALSE,
     status |-> 0, answer |-> JNull, revealed |-> {}, grade |-> <<>>,
     feedback |-> <<>>, feature |-> <<>>, has |-> FALSE, pre |-> NoStore]

\* the response to request rq: resp as sent, with what the handler saw
Sent(rq, found, resp, pre) ==
    [kind |-> rq.kind, sid |-> rq.sid, handled |-> TRUE, found |-> found,
     status |-> resp.status, answer |-> resp.answer, revealed |-> resp.revealed,
     grade |-> resp.grade, feedback |-> resp.feedback,
     feature |-> rq.feature, has |-> rq.has, pre |-> pre]

\* variant: handlers run on worker threads, not on the one event loop
CanRunThreaded(r) == TRUE

\* the handlers are coroutines without an await: the event loop runs one
\* request at a time, from its dispatch to its return; a request that has
\* arrived and is not dispatched yet is one whose first step is not enabled
CanRun(r) == loop = 0 \/ loop = r

Acquire(r) == IF loop = 0 THEN r ELSE loop
Release(r) == IF loop = r THEN 0 ELSE loop

SrvInit ==
    /\ app = "init"
    /\ state = NoStore
    /\ req = [r \in Reqs |-> Idle]
    /\ loop = 0
    /\ out = NoOut
    /\ asked = [s \in Sids |-> 0]
    /\ shown = [s \in Sids |-> {}]

-----------------------------------------------------------------------------
(* The codebook specification: a file is loaded, then tokens are decoded *)

CbInit ==
    /\ \/ \E c \in Contents, s \in Shapes :
            Writable(c, s) /\ content = c /\ shape = s /\ doc = Encode(c, s)
       \/ \E d \in OddDocs : content = <<>> /\ shape = "other" /\ doc = d
       \/ \E c \in Contents \ {<<>>} :
            content = c /\ shape = "rekeyed" /\ doc = Rekeyed(c)
    /\ cbStatus = "none"
    /\ E_MAP = <<>>
    /\ V_MAP = <<>>
    /\ lastDecode = <<>>
    /\ SrvInit
    /\ call = NoCall

\* Codebook("data/release_evidences.json", ...)
Load ==
    /\ cbStatus = "none"
    /\ cbStatus' = Codebook_init(doc).status
    /\ E_MAP' = Codebook_init(doc).E_MAP
    /\ V_MAP' = Codebook_init(doc).V_MAP
    /\ UNCHANGED <<doc, content, shape, lastDecode>>
    /\ UNCHANGED srvVars
    /\ UNCHANGED call

\* cb.decode_token(token)
Decode(token) ==
    /\ cbStatus = "ok"
    /\ lastDecode' = <<token, decode_token(token)>>
    /\ UNCHANGED <<doc, content, shape, cbStatus, E_MAP, V_MAP>>
    /\ UNCHANGED srvVars
    /\ UNCHANGED call

CbNext ==
    \/ Load
    \/ \E t \in Tokens : Decode(t)

SpecCodebook == CbInit /\ [][CbNext]_vars

-----------------------------------------------------------------------------
(* Properties of the codebook *)

IsPyStr(r) == DOMAIN r = 1..Len(r) /\ \A i \in 1..Len(r) : r[i] \in STRING

InHeadTable(head) == HasKey(E_MAP, JStr(head))
InValueTable(head, tail) == HasKey(V_MAP, <<JStr(head), JStr(tail)>>)

\* C7: decode_token is total: every call returns a string, and a token whose
\* head is not in the head table (bare, categorical or numeric tail alike)
\* is returned unchanged.
C7_DecodeTotal ==
    lastDecode # <<>> =>
        /\ IsPyStr(lastDecode[2])
        /\ ~InHeadTable(split_head(lastDecode[1])) => lastDecode[2] = lastDecode[1]

C7_Witness ==
    /\ lastDecode = <<Tok(E_999, V_167), Tok(E_999, V_167)>>
    /\ InHeadTable(E_55)
    /\ ~InHeadTable(E_999)

\* C8: for a token head_@_tail whose head resolves, the result is
\* "<questionText> -> <valueLabel>" exactly when the tail starts with V_ and
\* (head, tail) is in the value table, and "<questionText> -> <tail>" with the
\* tail verbatim otherwise (a categorical tail without a value row included).
C8_DecodeValued ==
    lastDecode # <<>> =>
        LET token == lastDecode[1]
            head == split_head(token)
            tail == split_tail(token)
            q == Str(question_text(emap_get(E_MAP, head).v, head))
        IN (contains(token, SEP) /\ InHeadTable(head)) =>
            /\ lastDecode[2] =
                    q \o ARROW \o
                    (IF startswith(tail, V_PREFIX) /\ InValueTable(head, tail)
                     THEN Str(value_label(vmap_get(V_MAP, head, tail).v, tail))
                     ELSE tail)
            /\ (content = <<R_loc>> /\ token = Tok(E_55, V_167))
                    => lastDecode[2] = Where \o ARROW \o TempleL

C8_Witness ==
    /\ lastDecode = <<Tok(E_55, V_9), Where \o ARROW \o V_9>>
    /\ InHeadTable(E_55)
    /\ InValueTable(E_55, V_167)
    /\ ~InValueTable(E_55, V_9)

\* C9: shape-invariance: a well-formed catalog written in any of the four
\* shapes loads, and decode_token returns for every token what it returns
\* when the same rows are written as a JSON array.
C9_ShapeInvariance ==
    (cbStatus # "none" /\ shape \in Shapes /\ WellFormed(content)) =>
        /\ cbStatus = "ok"
        /\ \A t \in Tokens :
              decode_token(t) =
                decode_with(Codebook_init(Encode(content, "array")).E_MAP,
                            Codebook_init(Encode(content, "array")).V_MAP, t)

\* the top-level value is one of the documented shapes
Supported(j) ==
    \/ islist(j)
    \/ /\ isdict(j)
       /\ \/ wrap_key(j.v) # 0
          \/ \A i \in 1..Len(j.v) : isdict(j.v[i][2])

-----------------------------------------------------------------------------
(* The server: create_app, then requests handled on the event loop *)

InFlight == {"nlu", "inc_read", "inc_write", "nlg"}

\* the evidence files the server is started with
SrvInit0 ==
    /\ \/ /\ content = <<R_fever, R_loc, R_int>>
          /\ shape = "array"
          /\ doc = Encode(content, "array")
       \/ /\ content = <<>>
          /\ shape = "other"
          /\ doc = << JInt(3) >>
    /\ cbStatus = "none"
    /\ E_MAP = <<>>
    /\ V_MAP = <<>>
    /\ lastDecode = <<>>
    /\ SrvInit
    /\ call = NoCall

\* variant: the routers are registered whether or not the codebook loaded
CreateAppRegistered ==
    /\ app = "init"
    /\ cbStatus' = Codebook_init(doc).status
    /\ E_MAP' = Codebook_init(doc).E_MAP
    /\ V_MAP' = Codebook_init(doc).V_MAP
    /\ app' = "serving"
    /\ UNCHANGED <<doc, content, shape, lastDecode>>
    /\ UNCHANGED <<state, req, loop, out, asked, shown>>
    /\ UNCHANGED call

\* main.create_app: the singletons and the routers, inside one try
CreateApp ==
    /\ app = "init"
    /\ cbStatus' = Codebook_init(doc).status
    /\ E_MAP' = Codebook_init(doc).E_MAP
    /\ V_MAP' = Codebook_init(doc).V_MAP
    /\ app' = IF Codebook_init(doc).status = "ok" THEN "serving" ELSE "norouters"
    /\ UNCHANGED <<doc, content, shape, lastDecode>>
    /\ UNCHANGED <<state, req, loop, out, asked, shown>>
    /\ UNCHANGED call

\* no router was registered: the framework answers 404 itself
NoRoute(r, kind, sid) ==
    /\ app = "norouters"
    /\ req[r].pc = "idle"
    /\ out' = [NoOut EXCEPT !.kind = kind, !.sid = sid, !.status = 404]
    /\ UNCHANGED <<cbVars, app, state, req, loop, asked, shown>>
    /\ UNCHANGED call

\* POST /v1/patient/start
StartRun(r, sid) ==
    /\ app = "serving"
    /\ req[r].pc = "idle"
    /\ CanRun(r)
    /\ \E case \in Cases :
        /\ state' = [state EXCEPT ![sid] = start_session(@, case)]
        /\ out' = Sent([Idle EXCEPT !.kind = "start", !.sid = sid], TRUE,
                       [status |-> 200,
                        answer |-> JStr(decode_token(case.initial_evidence)),
                        revealed |-> {}, grade |-> <<>>, feedback |-> <<>>], state)
    /\ asked' = [asked EXCEPT ![sid] = 0]
    /\ shown' = [shown EXCEPT ![sid] = {}]
    /\ loop' = Release(r)
    /\ UNCHANGED <<cbVars, app, req>>
    /\ UNCHANGED call

\* POST /v1/patient/ask, to the call of nlu.parse
AskGet(r, sid) ==
    /\ app = "serving"
    /\ req[r].pc = "idle"
    /\ CanRun(r)
    /\ state[sid].turns < MaxTurns
    /\ LET sess == state[sid]
       IN IF sess = NoSession
          THEN /\ out' = Sent([Idle EXCEPT !.kind = "ask", !.sid = sid], FALSE,
                              ask_response(error_dict), state)
               /\ loop' = Release(r)
               /\ UNCHANGED req
          ELSE /\ req' = [req EXCEPT ![r] =
                            [Idle EXCEPT !.kind = "ask", !.sid = sid, !.pc = "nlu",
                                         !.case = sess.case, !.pre = state]]
               /\ out' = NoOut
               /\ loop' = Acquire(r)
    /\ UNCHANGED <<cbVars, app, state, asked, shown>>
    /\ UNCHANGED call

\* nlu.parse returns; the PAIN_ANY reveals, or the composed token
AskParse(r) ==
    /\ req[r].pc = "nlu"
    /\ CanRun(r)
    /\ \E nlu \in NLUOut :
        LET f_head == nlu[1]
            case == req[r].case
            sid == req[r].sid
        IN IF f_head = PAIN_ANY
           THEN /\ req' = [req EXCEPT ![r].pc = "inc_read", ![r].feature = f_head,
                              ![r].token = f_head, ![r].has = pain_present(case)]
                /\ state' = [state EXCEPT ![sid].revealed = @ \cup pain_tokens(case)]
                /\ shown' = [shown EXCEPT ![sid] = @ \cup pain_tokens(case)]
           ELSE /\ req' = [req EXCEPT ![r].pc = "inc_read", ![r].feature = f_head,
                              ![r].token = compose(f_head, nlu[2]),
                              ![r].has = has_feature(case, compose(f_head, nlu[2]),
                                                     f_head)]
                /\ UNCHANGED <<state, shown>>
    /\ out' = NoOut
    /\ loop' = Acquire(r)
    /\ UNCHANGED <<cbVars, app, asked>>
    /\ UNCHANGED call

\* store.inc_turn: the read of self.state[sid]["turns"]
AskIncRead(r) ==
    /\ req[r].pc = "inc_read"
    /\ CanRun(r)
    /\ req' = [req EXCEPT ![r].pc = "inc_write", ![r].tmp = state[req[r].sid].turns]
    /\ out' = NoOut
    /\ loop' = Acquire(r)
    /\ UNCHANGED <<cbVars, app, state, asked, shown>>
    /\ UNCHANGED call

\* variant: the turn is counted only when the asked feature is present
AskIncWritePresent(r) ==
    /\ req[r].pc = "inc_write"
    /\ CanRun(r)
    /\ LET sid == req[r].sid
           rev == IF req[r].feature = PAIN_ANY THEN state[sid].revealed
                  ELSE reveal_if(state[sid].revealed, req[r].has, req[r].token)
       IN /\ state' = [state EXCEPT ![sid].turns = IF req[r].has THEN req[r].tmp + 1
                                                   ELSE req[r].tmp,
                                    ![sid].revealed = rev]
          /\ shown' = [shown EXCEPT ![sid] =
                          IF req[r].feature # PAIN_ANY /\ req[r].has
                          THEN @ \cup {req[r].token} ELSE @]
          /\ req' = [req EXCEPT ![r].pc = "nlg", ![r].snap = rev]
    /\ out' = NoOut
    /\ loop' = Acquire(r)
    /\ UNCHANGED <<cbVars, app, asked>>
    /\ UNCHANGED call

\* store.inc_turn: the write; store.reveal when the feature is present;
\* revealed = sorted(store.revealed(sid))
AskIncWrite(r) ==
    /\ req[r].pc = "inc_write"
    /\ CanRun(r)
    /\ LET sid == req[r].sid
           rev == IF req[r].feature = PAIN_ANY THEN state[sid].revealed
                  ELSE reveal_if(state[sid].revealed, req[r].has, req[r].token)
       IN /\ state' = [state EXCEPT ![sid].turns = req[r].tmp + 1,
                                    ![sid].revealed = rev]
          /\ shown' = [shown EXCEPT ![sid] =
                          IF req[r].feature # PAIN_ANY /\ req[r].has
                          THEN @ \cup {req[r].token} ELSE @]
          /\ req' = [req EXCEPT ![r].pc = "nlg", ![r].snap = rev]
    /\ out' = NoOut
    /\ loop' = Acquire(r)
    /\ UNCHANGED <<cbVars, app, asked>>
    /\ UNCHANGED call

\* human_answer returns; ask returns its AskResp
AskNLG(r) ==
    /\ req[r].pc = "nlg"
    /\ CanRun(r)
    /\ out' = Sent(req[r], TRUE,
                   ask_response([answer |-> JStr(NLG_TEXT),
                                 revealed |-> req[r].snap]), req[r].pre)
    /\ req' = [req EXCEPT ![r] = Idle]
    /\ asked' = [asked EXCEPT ![req[r].sid] = @ + 1]
    /\ loop' = Release(r)
    /\ UNCHANGED <<cbVars, app, state, shown>>
    /\ UNCHANGED call

\* variant: grading counts as a turn of the graded session
GradeRunCounted(r, sid) ==
    /\ app = "serving"
    /\ req[r].pc = "idle"
    /\ CanRun(r)
    /\ \E dx \in Diagnoses :
        \E resp \in grade_response(state[sid], dx) :
            out' = Sent([Idle EXCEPT !.kind = "grade", !.sid = sid],
                        state[sid] # NoSession, resp, state)
    /\ state' = IF state[sid] # NoSession /\ state[sid].turns < MaxTurns
                THEN [state EXCEPT ![sid].turns = @ + 1]
                ELSE state
    /\ loop' = Release(r)
    /\ UNCHANGED <<cbVars, app, req, asked, shown>>
    /\ UNCHANGED call

\* POST /v1/professor/grade
GradeRun(r, sid) ==
    /\ app = "serving"
    /\ req[r].pc = "idle"
    /\ CanRun(r)
    /\ \E dx \in Diagnoses :
        \E resp \in grade_response(state[sid], dx) :
            out' = Sent([Idle EXCEPT !.kind = "grade", !.sid = sid],
                        state[sid] # NoSession, resp, state)
    /\ loop' = Release(r)
    /\ UNCHANGED <<cbVars, app, state, req, asked, shown>>
    /\ UNCHANGED call

Next ==
    \/ CreateApp
    \/ \E r \in Reqs, kind \in {"start", "ask", "grade"}, sid \in Sids :
          NoRoute(r, kind, sid)
    \/ \E r \in Reqs, sid \in Sids : StartRun(r, sid)
    \/ \E r \in Reqs, sid \in Sids : AskGet(r, sid)
    \/ \E r \in Reqs : AskParse(r)
    \/ \E r \in Reqs : AskIncRead(r)
    \/ \E r \in Reqs : AskIncWrite(r)
    \/ \E r \in Reqs : AskNLG(r)
    \/ \E r \in Reqs, sid \in Sids : GradeRun(r, sid)

Spec == SrvInit0 /\ [][Next]_vars

-----------------------------------------------------------------------------
(* Properties of the sessions and the handlers *)

AskInFlight(sid) == \E r \in Reqs : req[r].pc \in InFlight /\ req[r].sid = sid

\* C1: when Start(sid) has completed, whatever the session held before, the
\* session under sid has a case of the catalog, revealed = {initial
\* evidence of that case} and turns = 0.
C1_StartResets ==
    (out.kind = "start" /\ out.handled) =>
        /\ state[out.sid].case \in Cases
        /\ state[out.sid].revealed = {state[out.sid].case.initial_evidence}
        /\ state[out.sid].turns = 0

C1_Witness ==
    /\ out.kind = "start" /\ out.handled
    /\ out.pre[out.sid].turns = 2
    /\ Cardinality(out.pre[out.sid].revealed) >= 2
    /\ state[out.sid].turns = 0
    /\ Cardinality(state[out.sid].revealed) = 1

\* C2: an Ask on a session id that was never started is answered with the
\* not-found status 404, and leaves the session store as it was.
C2_AskNotFound ==
    (out.kind = "ask" /\ out.handled /\ ~out.found) =>
        /\ out.status = 404
        /\ state = out.pre

\* C3: a Grade on a session id that was never started is answered with the
\* not-found status 404, carries no metric, and leaves the session store as
\* it was (no session is created).
C3_GradeNotFound ==
    (out.kind = "grade" /\ out.handled /\ ~out.found) =>
        /\ out.status = 404
        /\ out.grade = <<>>
        /\ state = out.pre
        /\ state[out.sid] = NoSession

C3_Witness ==
    /\ out.kind = "grade" /\ out.handled /\ ~out.found
    /\ out.status = 404
    /\ \E s \in Sids : state[s] # NoSession /\ state[s].turns > 0

\* C4: on a started session with no Ask in flight, turns is the number of
\* Asks completed since the last Start, and every token those Asks revealed
\* is in the revealed set.
C4_NoLostUpdate ==
    \A sid \in Sids :
        (state[sid] # NoSession /\ ~AskInFlight(sid)) =>
            /\ state[sid].turns = asked[sid]
            /\ shown[sid] \subseteq state[sid].revealed

C4_Witness ==
    \E sid \in Sids :
        /\ state[sid] # NoSession /\ ~AskInFlight(sid)
        /\ asked[sid] = 2 /\ state[sid].turns = 2
        /\ Cardinality(shown[sid]) >= 2

\* C5: while an Ask for one session waits on the NLU or NLG call, a Start,
\* Ask or Grade for another session can take its first step.
C5_NoBlocking ==
    \A a \in Reqs :
        (req[a].kind = "ask" /\ req[a].pc \in {"nlu", "nlg"}) =>
            \A b \in Reqs \ {a}, sid \in Sids \ {req[a].sid} :
                req[b].pc = "idle" =>
                    /\ ENABLED StartRun(b, sid)
                    /\ ENABLED GradeRun(b, sid)
                    /\ state[sid].turns < MaxTurns => ENABLED AskGet(b, sid)

\* C6: an Ask mapped to the sentinel ("UNKNOWN", no value), on a session
\* whose case has no evidence with that head, finds the feature absent and
\* leaves the revealed set as it was; decoding the sentinel gives it back.
C6_UnknownSentinel ==
    (out.kind = "ask" /\ out.found /\ out.feature = UNKNOWN
        /\ UNKNOWN \notin heads_of(seq_set(state[out.sid].case.evidences))) =>
        /\ ~out.has
        /\ out.revealed = out.pre[out.sid].revealed
        /\ state[out.sid].revealed = out.pre[out.sid].revealed
        /\ decode_token(UNKNOWN) = UNKNOWN

C6_Witness ==
    /\ out.kind = "ask" /\ out.found /\ out.feature = UNKNOWN
    /\ out.status = 200
    /\ Cardinality(out.revealed) >= 2
    /\ state[out.sid].turns = 2

\* C11: after a failed catalog load no Start, Ask or Grade is handled by the
\* patient / professor handlers: no router is registered, every such request
\* is answered by the framework, no session exists and no token is decoded.
C11_NoServeAfterFailedLoad ==
    (cbStatus \in {"format_error", "decode_error"}) =>
        /\ app = "norouters"
        /\ ~out.handled
        /\ state = NoStore
        /\ \A r \in Reqs : req[r].pc = "idle"
        /\ lastDecode = <<>>

C11_Witness ==
    /\ cbStatus = "format_error"
    /\ out.kind \in {"start", "ask", "grade"}
    /\ out.status = 404
    /\ ~out.handled

-----------------------------------------------------------------------------
(* The pure functions: the arguments are drawn, then the function is applied *)

ComposeHeads == {E_53, E_91, UNKNOWN}
V_bare == <<"1", "6", "7">>
ComposeValues ==
    {JNull} \cup {JInt(n) : n \in (0 - MaxValue)..MaxValue}
            \cup {JStr(x) : x \in {V_167, V_9, V_PREFIX, V_bare, <<"9">>, <<>>}}
ComposeCalls == {<<"compose", <<h, v>>>> : h \in ComposeHeads, v \in ComposeValues}

\* differential entries: the probabilities are fractions whose product with
\* 100 the float arithmetic of Python rounds as the exact value is rounded
FLU_uc == <<"F", "L", "U">>
COLD_uc == <<"C", "O", "L", "D">>
DiffEntries ==
    { [disease |-> Flu, prob |-> <<55, 100>>], [disease |-> Cold, prob |-> <<30, 100>>],
      [disease |-> cold_lc, prob |-> <<60, 100>>], [disease |-> FLU_uc, prob |-> <<1, 8>>],
      [disease |-> Flu, prob |-> <<3, 8>>] }
Differentials == SeqsUpTo(DiffEntries, MaxDiff)
DxNames == {DX_flu, FLU_uc, Flu, Cold, COLD_uc, DX_FLU_sp, DX_other}
CreditCalls == {<<"credit", <<d, dx>>>> : d \in Differentials, dx \in DxNames}

\* case evidences and revealed sets: same head with another value (E_55,
\* E_91), heads the case lacks (E_97)
EvTokens == {E_53, Tok(E_91, <<"3">>), Tok(E_55, V_167), Tok(E_55, V_9)}
RevTokens == {E_53, E_91, Tok(E_91, <<"3">>), Tok(E_55, V_9), E_97}
EvLists == SeqsUpTo(EvTokens, MaxEv)
PerCalls == {<<"per", <<ev, rv>>>> : ev \in EvLists, rv \in SUBSET RevTokens}

\* credit, recall and turn count of a grading
Credits == {0, 1, 12, 30, 38, 55, 60, 99, 100}
Recalls == {0, 25, 33, 50, 67, 75, 100}
TurnCounts == (0 - 2)..MaxIL
ScoreCalls ==
    {<<"score", <<c, p, t>>>> : c \in Credits, p \in Recalls, t \in TurnCounts}

\* the sessions grade is called on
CaseWide ==
    [id |-> "c3", initial_evidence |-> E_53,
     evidences |-> <<E_53, Tok(E_91, <<"3">>), Tok(E_55, V_167), Tok(E_56, <<"5">>), E_97>>,
     differential |-> << [disease |-> Flu, prob |-> <<55, 100>>] >>]
CaseBare ==
    [id |-> "c4", initial_evidence |-> E_53, evidences |-> <<>>,
     differential |-> << [disease |-> Cold, prob |-> <<30, 100>>] >>]
GradeCases == Cases \cup {CaseWide, CaseBare}
GradeRevealed == {E_53, E_91, Tok(E_91, <<"3">>), Tok(E_55, V_167), Tok(E_56, <<"5">>)}
GradeSessions ==
    {[case |-> c, revealed |-> rv, turns |-> t] :
        c \in GradeCases, rv \in SUBSET GradeRevealed, t \in 0..MaxTurns}
GradeCalls == {<<"grade", <<se, dx>>>> : se \in GradeSessions, dx \in Diagnoses}

\* token strings with no, one, two, a partial and an overlapping separator,
\* and the heads they are matched against
HeadTokens ==
    { E_55, UNKNOWN, Tok(E_55, V_167), Tok(E_91, <<"3">>),
      Tok(Tok(E_55, V_167), <<"3">>), Tok(<<>>, <<"3">>),
      E_55 \o <<"_", "@">>, E_55 \o <<"_", "@", "_", "@", "_", "3">> }
ProbeHeads == {<<>>, E_55, E_91, UNKNOWN, E_55 \o <<"_", "@">>}
HeadCalls == {<<"head", <<t, h>>>> : t \in HeadTokens, h \in ProbeHeads}

\* a head table with the one row of code h, and a case with the one evidence t
ProbeMap(h) ==
    << <<JStr(h), JDict(<< <<K_code_evidence, JStr(h)>>, <<K_question_en, JStr(Where)>> >>)>> >>
ProbeCase(t) ==
    [id |-> "probe", initial_evidence |-> t, evidences |-> <<t>>, differential |-> <<>>]

FnCalls ==
    ComposeCalls \cup CreditCalls \cup PerCalls \cup ScoreCalls \cup GradeCalls
        \cup HeadCalls

FnInit ==
    /\ \E c \in FnCalls : call = [fn |-> c[1], args |-> c[2], ret |-> <<>>, done |-> FALSE]
    /\ doc = Encode(<<R_fever, R_loc, R_int>>, "array")
    /\ content = <<R_fever, R_loc, R_int>>
    /\ shape = "array"
    /\ cbStatus = "ok"
    /\ E_MAP = Codebook_init(doc).E_MAP
    /\ V_MAP = Codebook_init(doc).V_MAP
    /\ lastDecode = <<>>
    /\ SrvInit

\* token = compose(f_head, value), patient.py:96-101
CallCompose ==
    /\ call.fn = "compose" /\ ~call.done
    /\ call' = [call EXCEPT !.ret = compose(call.args[1], call.args[2]), !.done = TRUE]
    /\ UNCHANGED <<cbVars, srvVars>>

\* credit = diagnosis_credit(case["differential"], normalized)
CallCredit ==
    /\ call.fn = "credit" /\ ~call.done
    /\ call' = [call EXCEPT !.ret = diagnosis_credit(call.args[1], call.args[2]),
                             !.done = TRUE]
    /\ UNCHANGED <<cbVars, srvVars>>

\* per = per_score(case["evidences"], store.revealed(sid))
CallPer ==
    /\ call.fn = "per" /\ ~call.done
    /\ call' = [call EXCEPT !.ret = per_score(call.args[1], call.args[2]),
                             !.done = TRUE]
    /\ UNCHANGED <<cbVars, srvVars>>

\* il = il_score(store.turns(sid)); score = int(round(...))
CallScore ==
    /\ call.fn = "score" /\ ~call.done
    /\ \E score \in composite(call.args[1], call.args[2], il_score(call.args[3])) :
        call' = [call EXCEPT !.ret = <<il_score(call.args[3]), score>>, !.done = TRUE]
    /\ UNCHANGED <<cbVars, srvVars>>

\* grade on a session that exists: credit, per, il, score, feedback
CallGrade ==
    /\ call.fn = "grade" /\ ~call.done
    /\ \E resp \in grade_metrics(call.args[1], call.args[2]) :
        call' = [call EXCEPT !.ret = resp.grade \o <<resp.feedback>>, !.done = TRUE]
    /\ UNCHANGED <<cbVars, srvVars>>

\* the four places that reduce a token t to its head, each applied to t
\* and the head h: decode_token with h in the head table, the presence check
\* of ask for the feature h, per_score with h revealed, the missed heads of
\* grade with h revealed
CallHead ==
    /\ call.fn = "head" /\ ~call.done
    /\ LET t == call.args[1]
           h == call.args[2]
       IN call' = [call EXCEPT
                !.ret = [decoded |-> decode_with(ProbeMap(h), <<>>, t),
                         present |-> has_feature(ProbeCase(t), compose(h, JNull), h),
                         per |-> per_score(<<t>>, {h}),
                         missed |-> missed_heads([case |-> ProbeCase(t),
                                                   revealed |-> {h}, turns |-> 0])],
                !.done = TRUE]
    /\ UNCHANGED <<cbVars, srvVars>>

FnNext ==
    \/ CallCompose
    \/ CallCredit
    \/ CallPer
    \/ CallScore
    \/ CallGrade
    \/ CallHead

SpecFn == FnInit /\ [][FnNext]_vars

-----------------------------------------------------------------------------
(* Properties of the pure functions *)

\* the number a decimal text stands for
DigitVal(c) == CHOOSE d \in 0..9 : Digit(d) = c

RECURSIVE ParseNat(_)
ParseNat(x) ==
    IF x = <<>> THEN 0
    ELSE 10 * ParseNat(SubSeq(x, 1, Len(x) - 1)) + DigitVal(x[Len(x)])

ParseInt(x) == IF Head(x) = "-" THEN 0 - ParseNat(Tail(x)) ELSE ParseNat(x)

\* the value part of a token: absent, the V_ string, or the integer
valuePartOf(t) ==
    IF ~contains(t, SEP) THEN JNull
    ELSE IF startswith(split_tail(t), V_PREFIX) THEN JStr(split_tail(t))
    ELSE JInt(ParseInt(split_tail(t)))

\* equality of two JSON values (values of different types are different)
JEq(a, b) == a.t = b.t /\ a.v = b.v

\* the tokens of the three shapes
ShapeTokens ==
    ComposeHeads
      \cup {Tok(h, v) : h \in ComposeHeads, v \in {V_167, V_9, V_PREFIX}}
      \cup {Tok(h, IntStr(n)) : h \in ComposeHeads, n \in (0 - MaxValue)..MaxValue}

\* C12: compose round-trips with head / value parsing: for every token t of
\* the three shapes, compose(HeadOf(t), valuePartOf(t)) = t; a string value
\* without the V_ prefix is composed with the prefix inserted; an absent
\* value gives the bare head.
C12_ComposeRoundTrip ==
    (call.fn = "compose" /\ call.done) =>
        LET f_head == call.args[1]
            value == call.args[2]
        IN /\ \A t \in ShapeTokens :
                (f_head = split_head(t) /\ JEq(value, valuePartOf(t))) => call.ret = t
           /\ split_head(call.ret) = f_head
           /\ value.t = "null" => call.ret = f_head
           /\ (isstr(value) /\ ~startswith(value.v, V_PREFIX)) =>
                call.ret = f_head \o SEP \o V_PREFIX \o value.v
           /\ isint(value) => JEq(valuePartOf(call.ret), value)
           /\ isstr(value) => valuePartOf(call.ret).v \in {value.v, V_PREFIX \o value.v}

C12_Witness ==
    /\ call.fn = "compose" /\ call.done
    /\ call.args[1] = E_91
    /\ JEq(call.args[2], JStr(V_167))
    /\ call.ret = Tok(E_91, V_167)
    /\ call.ret \in ShapeTokens
    /\ JEq(valuePartOf(call.ret), JStr(V_167))

\* the differential with every disease name in lower case
lower_names(differential) ==
    [i \in 1..Len(differential) |->
        [differential[i] EXCEPT !.disease = lower(differential[i].disease)]]

\* C13: diagnosis_credit is round(100 * probability) of the first entry, in
\* differential order, whose disease equals the name ignoring letter case,
\* and 0 when there is none; matching entries are not summed; inputs that
\* differ only in letter case give the same credit.
C13_DiagnosisCredit ==
    (call.fn = "credit" /\ call.done) =>
        LET d == call.args[1]
            dx == call.args[2]
            hits == {i \in 1..Len(d) : lower(d[i].disease) = lower(dx)}
        IN /\ hits = {} => call.ret = 0
           /\ \A i \in hits :
                (\A j \in hits : i <= j) =>
                    call.ret = round_div(100 * d[i].prob[1], d[i].prob[2])
           /\ \A dx2 \in DxNames :
                lower(dx2) = lower(dx) => diagnosis_credit(d, dx2) = call.ret
           /\ diagnosis_credit(lower_names(d), dx) = call.ret
           /\ call.ret \in 0..100

C13_Witness ==
    /\ call.fn = "credit" /\ call.done
    /\ call.args[1] = << [disease |-> Cold, prob |-> <<30, 100>>],
                         [disease |-> cold_lc, prob |-> <<60, 100>>] >>
    /\ call.args[2] = COLD_uc
    /\ call.ret = 30

\* C14: per_score is round(100 * |caseHeads /\ revealedHeads| / |caseHeads|)
\* over heads: 100 when every head of a non-empty case is revealed (whatever
\* the values, whatever else is revealed), 0 when no head is shared, 0 for a
\* case without evidence, and always within 0..100.
C14_PerScore ==
    (call.fn = "per" /\ call.done) =>
        LET caseHeads == {split_head(call.args[1][i]) : i \in 1..Len(call.args[1])}
            revealedHeads == {split_head(t) : t \in call.args[2]}
            shared == caseHeads \cap revealedHeads
        IN /\ caseHeads # {} =>
                call.ret = round_div(100 * Cardinality(shared), Cardinality(caseHeads))
           /\ (caseHeads # {} /\ caseHeads \subseteq revealedHeads) => call.ret = 100
           /\ shared = {} => call.ret = 0
           /\ caseHeads = {} => call.ret = 0
           /\ call.ret \in 0..100

C14_Witness ==
    /\ call.fn = "per" /\ call.done
    /\ call.args[1] = <<E_53, Tok(E_91, <<"3">>)>>
    /\ call.args[2] = {E_53, E_91, E_97}
    /\ call.ret = 100

Max0(x) == IF x > 0 THEN x ELSE 0

\* the session and the diagnosis of the end-to-end scenario
ScenarioSession == [case |-> Case1, revealed |-> {E_53}, turns |-> 2]

\* C15: grade reports il = max(0, turns) and score = round(0.6 credit +
\* 0.3 recall + 0.1 max(0, 100 - il)), i.e. the integer nearest to that sum;
\* for credit and recall in 0..100 the score is in 0..100; one more turn never
\* raises it; the scenario (Case1, {E_53} revealed, 2 turns, "flu") gives
\* credit 55, recall 50, il 2, score 58.
C15_Composite ==
    /\ (call.fn = "score" /\ call.done) =>
        LET credit == call.args[1]
            recall == call.args[2]
            turns == call.args[3]
            il == call.ret[1]
            score == call.ret[2]
            sum10 == 6 * credit + 3 * recall + Max0(100 - il)
        IN /\ il = Max0(turns)
           /\ 10 * score - sum10 \in (0 - 5)..5
           /\ score \in 0..100
           \* one more turn: a smaller sum never rounds higher (an equal sum
           \* is the same float expression, hence the same score)
           /\ Max0(100 - Max0(turns + 1)) < Max0(100 - il) =>
                \A next \in composite(credit, recall, il_score(turns + 1)) :
                    next <= score
    /\ (call.fn = "grade" /\ call.done) =>
        /\ call.ret[3] = Max0(call.args[1].turns)
        /\ 10 * call.ret[4] - (6 * call.ret[1] + 3 * call.ret[2]
                                + Max0(100 - call.ret[3])) \in (0 - 5)..5
        /\ (call.args[1] = ScenarioSession /\ call.args[2] = DX_flu) =>
                SubSeq(call.ret, 1, 4) = <<55, 50, 2, 58>>

C15_Witness ==
    /\ call.fn = "grade" /\ call.done
    /\ call.args[1] = ScenarioSession
    /\ call.args[2] = DX_flu
    /\ SubSeq(call.ret, 1, 4) = <<55, 50, 2, 58>>

\* C16: the feedback list of grade has 1 to 3 entries: with missed heads
\* (case heads that are not revealed heads) it has min(3, number of missed
\* heads) entries, each made from a different missed head; with none (a case
\* without evidence included) it is the one fixed good-coverage message.
C16_Feedback ==
    (call.fn = "grade" /\ call.done) =>
        LET sess == call.args[1]
            fb == call.ret[5]
            caseHeads == {split_head(sess.case.evidences[i]) :
                            i \in 1..Len(sess.case.evidences)}
            missed == caseHeads \ {split_head(t) : t \in sess.revealed}
        IN /\ Len(fb) \in 1..3
           /\ missed = {} => fb = <<GOOD_COVERAGE>>
           /\ missed # {} =>
                /\ Len(fb) = Min(3, Cardinality(missed))
                /\ \E hs \in [1..Len(fb) -> missed] :
                      /\ \A i, j \in 1..Len(fb) : i # j => hs[i] # hs[j]
                      /\ \A i \in 1..Len(fb) : fb[i] = CONSIDER \o decode_token(hs[i])

C16_Witness ==
    /\ call.fn = "grade" /\ call.done
    /\ call.args[1].case = CaseWide
    /\ call.args[1].revealed = {E_53, E_91}
    /\ Len(call.ret[5]) = 3
    /\ call.ret[5][1] = CONSIDER \o Where
    /\ call.ret[5][2] = CONSIDER \o E_97

\* an Ask on sid has counted its turn and has not returned yet
TurnCounted(sid) == \E r \in Reqs : req[r].pc = "nlg" /\ req[r].sid = sid

\* C17: every Ask that completes on a started session leaves turns exactly 1
\* above what it was when the Ask was dispatched, whether the feature is
\* present, absent or PAIN_ANY; so turns is the number of Asks completed
\* since the last Start (plus the one Ask that has counted and not returned).
C17_TurnPerAsk ==
    /\ (out.kind = "ask" /\ out.handled /\ out.found) =>
            state[out.sid].turns = out.pre[out.sid].turns + 1
    /\ \A sid \in Sids :
        state[sid] # NoSession =>
            state[sid].turns = asked[sid] + (IF TurnCounted(sid) THEN 1 ELSE 0)

C17_Witness ==
    /\ out.kind = "ask" /\ out.handled /\ out.found
    /\ out.feature = PAIN_ANY
    /\ out.pre[out.sid].turns = 1
    /\ state[out.sid].turns = 2
    /\ asked[out.sid] = 2
    /\ Cardinality(out.revealed) > Cardinality(out.pre[out.sid].revealed)

\* C18: for a head of the head table and a numeric tail n, the decoding of
\* head_@_n is the decoding of the bare head followed by " -> n", whichever
\* display field the row carries.
C18_SameQuestionText ==
    lastDecode # <<>> =>
        LET token == lastDecode[1]
            head == split_head(token)
            tail == split_tail(token)
        IN (contains(token, SEP) /\ ~startswith(tail, V_PREFIX) /\ InHeadTable(head)) =>
                lastDecode[2] = decode_token(head) \o ARROW \o tail

\* C19: in a file that is a JSON object keyed by head code, the key is a
\* row's code only when the row carries none: a row with its own code under
\* code_evidence, code or id is in the head table under that code and not
\* under the key; a row without one is there under the key.
C19_RowCodeWins ==
    (cbStatus = "ok" /\ shape = "rekeyed") =>
        \A i \in 1..Len(content) :
            isdict(content[i]) =>
                IF Truthy(row_code(content[i].v))
                THEN /\ HasKey(E_MAP, row_code(content[i].v))
                     /\ ~InHeadTable(FILE_KEYS[i])
                ELSE InHeadTable(FILE_KEYS[i])

\* row i of the file is an object with a code
Coded(i) == isdict(content[i]) /\ Truthy(row_code(content[i].v))

\* row i is the last row of the file with its code
LastOfCode(i) ==
    /\ Coded(i)
    /\ \A j \in (i + 1)..Len(content) :
          Coded(j) => row_code(content[j].v) # row_code(content[i].v)

\* the value codes row i lists
ValueCodesOf(i) ==
    LET vals == row_values(content[i].v)
    IN IF ~islist(vals) THEN {}
       ELSE {value_code(vals.v[k].v) : k \in {k \in 1..Len(vals.v) : isdict(vals.v[k])}}

\* C20: when rows share a head code the later row overwrites the earlier:
\* the head table maps each code to the last row carrying it, the value
\* table holds for that code exactly the values of that last row, and every
\* (head, value) key of the value table has its head in the head table.
C20_LastWriteWins ==
    /\ \A k \in 1..Len(V_MAP) : HasKey(E_MAP, V_MAP[k][1][1])
    /\ (cbStatus = "ok" /\ shape \in {"array", "wrapped"}) =>
        /\ \A i \in 1..Len(content) :
            LastOfCode(i) =>
                LET code == row_code(content[i].v)
                IN /\ Get(E_MAP, code) =
                        JDict(Put(content[i].v, K_code_evidence, code))
                   /\ \A k \in 1..Len(V_MAP) :
                        V_MAP[k][1][1] = code => V_MAP[k][1][2] \in ValueCodesOf(i)
                   /\ \A vc \in ValueCodesOf(i) :
                        Truthy(vc) => HasKey(V_MAP, <<code, vc>>)
        /\ \A k \in 1..Len(E_MAP) :
              \E i \in 1..Len(content) :
                  LastOfCode(i) /\ row_code(content[i].v) = E_MAP[k][1]

C20_Witness ==
    /\ cbStatus = "ok" /\ shape = "array"
    /\ content = <<R_loc, R_loc2>>
    /\ Len(E_MAP) = 1
    /\ Str(Get(emap_get(E_MAP, E_55).v, K_question)) = Site
    /\ InValueTable(E_55, V_9)
    /\ ~InValueTable(E_55, V_167)
    /\ lastDecode = <<Tok(E_55, V_167), Site \o ARROW \o V_167>>

\* the text before the first value separator, the whole token without one
HeadOf(t) ==
    IF \E i \in 1..Len(t) : i + 2 <= Len(t) /\ <<t[i], t[i + 1], t[i + 2]>> = SEP
    THEN LET first == CHOOSE i \in 1..Len(t) :
                        /\ i + 2 <= Len(t) /\ <<t[i], t[i + 1], t[i + 2]>> = SEP
                        /\ \A j \in 1..(i - 1) : <<t[j], t[j + 1], t[j + 2]>> # SEP
         IN [k \in 1..(first - 1) |-> t[k]]
    ELSE t

\* the text after the first value separator
TailOf(t) == [k \in 1..(Len(t) - Len(HeadOf(t)) - 3) |-> t[k + Len(HeadOf(t)) + 3]]

\* C21: decoding, the presence check, the recall and the missed-evidence
\* feedback all use HeadOf(t) as the head of a token t: with a probe head h
\* (no separator in it), each of them matches t against h exactly when
\* h = HeadOf(t).
C21_SameHead ==
    (call.fn = "head" /\ call.done) =>
        LET t == call.args[1]
            h == call.args[2]
            same == (h = HeadOf(t))
        IN /\ HeadOf(t) # t =>
                ((call.ret.decoded = Where \o ARROW \o TailOf(t)) <=> same)
           /\ HeadOf(t) = t => ((call.ret.decoded = Where) <=> same)
           /\ call.ret.present <=> same
           /\ (call.ret.per = 100) <=> same
           /\ (call.ret.missed = {<<>>}) <=> same
           /\ ~same => call.ret.missed = {<<HeadOf(t)>>}

C21_Witness ==
    /\ call.fn = "head" /\ call.done
    /\ call.args = <<Tok(Tok(E_55, V_167), <<"3">>), E_55>>
    /\ call.ret.decoded = Where \o ARROW \o Tok(V_167, <<"3">>)
    /\ call.ret.present
    /\ call.ret.per = 100
    /\ call.ret.missed = {<<>>}

\* a step that answers a grade request for a session that exists
GradeAnswered(o) == o.kind = "grade" /\ o.handled /\ o.status = 200

\* C22: a step that grades a session leaves the whole session registry as
\* it was (the graded session's case, revealed tokens and turns, and every
\* other session), so a grade that directly follows a grade of the same
\* session with the same diagnosis returns the same credit, recall,
\* interaction length and composite score: every grade the registry left
\* behind allows for that diagnosis carries the metrics just returned.
C22_GradePureRead ==
    [][ /\ (out'.kind = "grade" /\ out'.handled) => state' = state
        /\ ( /\ GradeAnswered(out) /\ GradeAnswered(out')
             /\ out'.sid = out.sid
             /\ JEq(out'.answer, out.answer) )
            => out'.grade = out.grade
        /\ GradeAnswered(out') =>
            \A dx \in Diagnoses : strip(dx) = out'.answer.v =>
                \A again \in grade_response(state'[out'.sid], dx) :
                    again.grade = out'.grade ]_vars

\* a session that was asked about and revealed something is graded while
\* another session exists, and the registry is what the grade found
C22_Witness ==
    /\ GradeAnswered(out)
    /\ state = out.pre
    /\ state[out.sid].turns >= 1
    /\ Cardinality(state[out.sid].revealed) >= 2
    /\ \E other \in Sids \ {out.sid} : state[other] # NoSession
    /\ out.grade[2] > 0 /\ out.grade[3] = state[out.sid].turns

\* the heads of the evidences of a case
CaseHeads(case) == {HeadOf(case.evidences[i]) : i \in DOMAIN case.evidences}

\* the token belongs to the case: its initial evidence, or a token of a
\* head of the case
BelongsTo(t, case) == t = case.initial_evidence \/ HeadOf(t) \in CaseHeads(case)

\* the ask in flight for request r still works on the session it fetched:
\* same case, and nothing but its own reveals and turn since its dispatch
AskOwnsSession(r) ==
    LET sid == req[r].sid
        pre == req[r].pre
    IN /\ state[sid] # NoSession
       /\ state[sid].case = req[r].case
       /\ pre[sid].revealed \subseteq state[sid].revealed
       /\ state[sid].turns = pre[sid].turns + (IF req[r].pc = "nlg" THEN 1 ELSE 0)

\* C23: in every reachable state every revealed token of a session is the
\* initial evidence of the session's current case or has the head of one of
\* its evidences; an Ask about a head absent from the case (or a generic
\* pain question on a case without pain heads) leaves the revealed set as it
\* found it; and an Ask between its dispatch and its return holds the case
\* currently assigned to its session, so no token checked against an
\* earlier case is revealed into a later one.
C23_RevealedBelongToCase ==
    /\ \A sid \in Sids :
        state[sid] # NoSession =>
            \A t \in state[sid].revealed : BelongsTo(t, state[sid].case)
    /\ ( /\ out.kind = "ask" /\ out.handled /\ out.found
         /\ IF out.feature = PAIN_ANY
            THEN CaseHeads(state[out.sid].case) \cap PAIN_HEADS = {}
            ELSE out.feature \notin CaseHeads(state[out.sid].case) )
        => state[out.sid].revealed = out.pre[out.sid].revealed
    /\ \A r \in Reqs : req[r].pc \in InFlight => AskOwnsSession(r)

\* one session holds a token revealed by its head only (E_56_@_V_9 against
\* the evidence E_56_@_5), and an Ask about the same head, absent from the
\* case of the other session, has just returned
C23_Witness ==
    /\ out.kind = "ask" /\ out.handled /\ out.found
    /\ out.feature = E_56 /\ ~out.has
    /\ state[out.sid].case = Case1
    /\ state[out.sid].revealed = {E_53}
    /\ \E other \in Sids \ {out.sid} :
        /\ state[other] # NoSession /\ state[other].case = Case2
        /\ Tok(E_56, V_9) \in state[other].revealed
        /\ Tok(E_56, V_9) \notin seq_set(Case2.evidences)
        /\ Tok(E_56, V_9) # Case2.initial_evidence

\* the step is a completed Start of the session sid
StartsSession(o, sid) == o.kind = "start" /\ o.handled /\ o.sid = sid

\* the recall a Grade of the session would report
RecallOf(sess) == per_score(sess.case.evidences, sess.revealed)

\* C24: a step that is not a Start of the session keeps the session's case
\* and leaves its revealed set equal to or a superset of what it was, so the
\* recall a Grade would report does not decrease; the reveal of a token
\* that is already revealed changes nothing; and an Ask that returns leaves
\* the set and the recall at or above what it found at its dispatch.
C24_RevealedGrows ==
    [][ /\ \A sid \in Sids :
            (state[sid] # NoSession /\ ~StartsSession(out', sid)) =>
                /\ state'[sid] # NoSession
                /\ state'[sid].case = state[sid].case
                /\ state[sid].revealed \subseteq state'[sid].revealed
                /\ RecallOf(state[sid]) <= RecallOf(state'[sid])
        /\ \A r \in Reqs :
            ( /\ req[r].pc = "inc_write" /\ req'[r].pc = "nlg"
              /\ req[r].token \in state[req[r].sid].revealed ) =>
                state'[req[r].sid].revealed = state[req[r].sid].revealed
        /\ (out'.kind = "ask" /\ out'.handled /\ out'.found) =>
                /\ out'.pre[out'.sid].revealed \subseteq state'[out'.sid].revealed
                /\ out'.pre[out'.sid].revealed \subseteq out'.revealed
                /\ RecallOf(out'.pre[out'.sid]) <= RecallOf(state'[out'.sid]) ]_vars

\* the second Ask about the fever of the first case has returned: the token
\* E_91_@_3 was revealed by the first, the set and the recall stay as they were
C24_Witness ==
    /\ out.kind = "ask" /\ out.handled /\ out.found
    /\ out.feature = E_91 /\ out.has
    /\ out.pre[out.sid].turns = 1
    /\ out.pre[out.sid].revealed = {E_53, Tok(E_91, <<"3">>)}
    /\ state[out.sid].revealed = {E_53, Tok(E_91, <<"3">>)}
    /\ RecallOf(state[out.sid]) = 100

=============================================================================
